---------------------------- MODULE Spec2Model ----------------------------
(***************************************************************************)
(* Model of the Oracle Linux OVAL updater (package oracle):                *)
(* compareELSA, updater.Update, largest, parseELSA, getCriterions,         *)
(* getPossibilities, toFeatures, description, name, link, severity.        *)
(*                                                                         *)
(* Go strings are TLA+ strings; positions are 0-based as in Go and are     *)
(* shifted by one where SubSeq is used.  A Go run-time panic (a slice      *)
(* expression with bounds out of range) is an explicit outcome.            *)
(***************************************************************************)
EXTENDS Integers, Sequences, FiniteSets, TLC

VARIABLES
    pc,              \* position of the operation under way
    datastore,       \* the key/value store's entry for updaterFlag
    firstELSA,       \* Update: the watermark of the batch
    lines,           \* Update: listing lines scanned so far
    elsaList,        \* Update: the ELSAs selected for the batch
    fetched,         \* Update: how many of elsaList are downloaded and parsed
    resp,            \* Update: the response (named result)
    err,             \* Update: the error result
    left,            \* compareELSA: first argument
    right,           \* compareELSA: second argument
    cmp,             \* compareELSA: result
    node,            \* getPossibilities: argument
    possibilities,   \* getPossibilities: result
    def,             \* parseELSA / description: the definition decoded
    desc,            \* description: result
    pkgs,            \* toFeatures: outcome
    parsed           \* parseELSA: outcome

vars == <<pc, datastore, firstELSA, lines, elsaList, fetched, resp, err,
          left, right, cmp, node, possibilities, def, desc, pkgs, parsed>>

updateVars == <<datastore, firstELSA, lines, elsaList, fetched, resp, err>>
compareVars == <<left, right, cmp>>
possVars == <<node, possibilities>>
parseVars == <<def, desc, pkgs, parsed>>

-----------------------------------------------------------------------------
(* Bounds of the model.                                                    *)

MaxELSA == 120          \* compareELSA is applied to 0..MaxELSA
MaxListed == 11         \* listing lines carry the ids 0 and 8..MaxListed
MaxLines == 2           \* matching lines of one listing
MaxLeaves == 3          \* criterions of one criteria node
MaxDescLen == 5         \* bytes of a description
MaxCriterions == 2      \* criterions of the criteria a definition is parsed with
MaxCVEs == 2            \* cve entries of a definition

-----------------------------------------------------------------------------
(* Constants of the program.                                               *)

firstOracle5ELSA == 20070057
updaterFlag == "oracleUpdater"
ignoredCriterions == <<" is signed with the Oracle Linux", ".ksplice1.">>

ErrCouldNotDownload == "could not download requested resource"
ErrCouldNotParse == "could not parse the source"
ErrBackend == "database: an error occurred when querying the backend"

-----------------------------------------------------------------------------
(* The library functions the program calls, by what they do.               *)

Digits == <<"0", "1", "2", "3", "4", "5", "6", "7", "8", "9">>

\* the byte s[i] of Go, i counted from 0
ByteAt(s, i) == SubSeq(s, i + 1, i + 1)

\* s[lo:hi] of Go; the expression panics unless SliceOk
SliceOk(s, lo, hi) == 0 <= lo /\ lo <= hi /\ hi <= Len(s)
Slice(s, lo, hi) == SubSeq(s, lo + 1, hi)

IsDigit(c) == \E d \in 1..10 : Digits[d] = c
DigitValue(c) == (CHOOSE d \in 1..10 : Digits[d] = c) - 1

\* strconv.Itoa
RECURSIVE ItoaNat(_)
ItoaNat(n) == IF n < 10 THEN Digits[n + 1]
              ELSE ItoaNat(n \div 10) \o Digits[(n % 10) + 1]
Itoa(n) == IF n < 0 THEN "-" \o ItoaNat(0 - n) ELSE ItoaNat(n)

\* strconv.Atoi: an optional sign, then one or more decimal digits; the
\* value is 0 when err is set
RECURSIVE DigitsValue(_, _)
DigitsValue(s, acc) ==
    IF s = "" THEN acc
    ELSE DigitsValue(Slice(s, 1, Len(s)), acc * 10 + DigitValue(ByteAt(s, 0)))
AllDigits(s) == s # "" /\ \A i \in 0..(Len(s) - 1) : IsDigit(ByteAt(s, i))
Atoi(s) ==
    LET signed == s # "" /\ ByteAt(s, 0) \in {"+", "-"}
        body == IF signed THEN Slice(s, 1, Len(s)) ELSE s
    IN  IF ~AllDigits(body) THEN [val |-> 0, err |-> TRUE]
        ELSE [val |-> IF signed /\ ByteAt(s, 0) = "-"
                      THEN 0 - DigitsValue(body, 0) ELSE DigitsValue(body, 0),
              err |-> FALSE]

\* strings.Index: the 0-based position of the first sub in s, or -1
Index(s, sub) ==
    LET at == {i \in 0..(Len(s) - Len(sub)) : Slice(s, i, i + Len(sub)) = sub}
    IN  IF at = {} THEN 0 - 1 ELSE CHOOSE i \in at : \A j \in at : i <= j

\* strings.Contains
Contains(s, sub) == Index(s, sub) >= 0

\* strings.Replace(s, old, new, -1) for a non-empty old: the leftmost
\* non-overlapping occurrences
RECURSIVE Replace(_, _, _)
Replace(s, old, new) ==
    LET i == Index(s, old)
    IN  IF i < 0 THEN s
        ELSE Slice(s, 0, i) \o new \o Replace(Slice(s, i + Len(old), Len(s)), old, new)

\* strings.TrimSpace
IsSpace(c) == c \in {" ", "\t", "\n", "\r"}
RECURSIVE TrimLeft(_)
TrimLeft(s) == IF s # "" /\ IsSpace(ByteAt(s, 0)) THEN TrimLeft(Slice(s, 1, Len(s))) ELSE s
RECURSIVE TrimRight(_)
TrimRight(s) == IF s # "" /\ IsSpace(ByteAt(s, Len(s) - 1))
                THEN TrimRight(Slice(s, 0, Len(s) - 1)) ELSE s
TrimSpace(s) == TrimRight(TrimLeft(s))

-----------------------------------------------------------------------------
(* compareELSA                                                             *)

\* strconv.Atoi(string(str[i])) with the error dropped: a byte that is no
\* digit (the sign of a negative number) counts as 0
digitAt(str, i) == Atoi(ByteAt(str, i)).val

\* the loop over the bytes of lstr, entered at index i
RECURSIVE compareLoop(_, _, _)
compareLoop(lstr, rstr, i) ==
    IF i >= Len(lstr) THEN Len(lstr) - Len(rstr)
    ELSE IF i >= Len(rstr) THEN 1
    ELSE IF digitAt(lstr, i) > digitAt(rstr, i) THEN 1
    ELSE IF digitAt(lstr, i) < digitAt(rstr, i) THEN 0 - 1
    ELSE compareLoop(lstr, rstr, i + 1)

compareNumeric(l, r) == l - r

compareELSA(l, r) ==
    IF r = l THEN 0 ELSE compareLoop(Itoa(l), Itoa(r), 0)

\* the body of the scanner loop for a line that matches elsaRegexp
selectELSA(list, elsaNo, first) ==
    IF compareELSA(elsaNo, first) > 0 THEN Append(list, elsaNo) ELSE list

-----------------------------------------------------------------------------
(* getCriterions, getPossibilities                                         *)
(* A criteria node is [Operator, Criterias, Criterions]; a criterion is    *)
(* [Comment]; a possibility is a sequence of criterions.                   *)

RECURSIVE Flatten(_)
Flatten(ss) == IF ss = <<>> THEN <<>> ELSE Head(ss) \o Flatten(Tail(ss))

ignored(c) ==
    \E k \in 1..Len(ignoredCriterions) : Contains(c.Comment, ignoredCriterions[k])

filterCriterions(criterions) == SelectSeq(criterions, LAMBDA c : ~ignored(c))

getCriterions(n) ==
    LET criterions == filterCriterions(n.Criterions)
    IN  IF n.Operator = "AND" THEN <<criterions>>
        ELSE IF n.Operator = "OR"
             THEN [i \in 1..Len(criterions) |-> <<criterions[i]>>]
        ELSE <<>>

\* one round of the AND loop: every possibility so far joined with every
\* possibility of the next group
composeFirstOnly(poss, possibilityGroup) ==
    IF possibilityGroup = <<>> THEN <<>>
    ELSE [i \in 1..Len(poss) |-> poss[i] \o possibilityGroup[1]]

composeAND(poss, possibilityGroup) ==
    Flatten([i \in 1..Len(poss) |->
                [j \in 1..Len(possibilityGroup) |-> poss[i] \o possibilityGroup[j]]])

RECURSIVE foldAND(_, _)
foldAND(poss, groups) ==
    IF groups = <<>> THEN poss
    ELSE foldAND(composeAND(poss, Head(groups)), Tail(groups))

RECURSIVE getPossibilities(_)
getPossibilities(n) ==
    IF Len(n.Criterias) = 0 THEN getCriterions(n)
    ELSE LET possibilitiesToCompose ==
                 [i \in 1..Len(n.Criterias) |-> getPossibilities(n.Criterias[i])]
                 \o (IF Len(n.Criterions) > 0 THEN <<getCriterions(n)>> ELSE <<>>)
         IN  IF n.Operator = "AND"
             THEN foldAND(Head(possibilitiesToCompose), Tail(possibilitiesToCompose))
             ELSE IF n.Operator = "OR" THEN Flatten(possibilitiesToCompose)
             ELSE <<>>

-----------------------------------------------------------------------------
(* toFeatures                                                              *)

\* versionfmt.MaxVersion and versionfmt.Valid of the rpm format
MaxVersion == "#MAXV#"
Valid(version) == TrimSpace(version) # ""

zeroFeature == [FeatureName |-> "", AffectedVersion |-> "", FixedInVersion |-> ""]

installedLen == Len("Oracle Linux ")
earlierLen == Len(" is earlier than ")

\* the state of the scan of one possibility: the feature built so far, the
\* release number, and whether a slice expression panicked
scanStart == [fv |-> zeroFeature, osVersion |-> 0, panic |-> FALSE]

scanInstalled(st, c) ==
    IF ~SliceOk(c.Comment, installedLen, Len(c.Comment))
    THEN [st EXCEPT !.panic = TRUE]
    ELSE LET hi == installedLen
                   + Index(Slice(c.Comment, installedLen, Len(c.Comment)), " ")
         IN  IF ~SliceOk(c.Comment, installedLen, hi)
             THEN [st EXCEPT !.panic = TRUE]
             ELSE [st EXCEPT !.osVersion =
                       Atoi(TrimSpace(Slice(c.Comment, installedLen, hi))).val]

scanEarlier(st, c) ==
    LET at == Index(c.Comment, " is earlier than ")
        version == Slice(c.Comment, at + earlierLen, Len(c.Comment))
        named == [st.fv EXCEPT !.FeatureName = TrimSpace(Slice(c.Comment, 0, at))]
    IN  IF ~Valid(version) THEN [st EXCEPT !.fv = named]
        ELSE [st EXCEPT !.fv =
                 [named EXCEPT !.AffectedVersion = version,
                               !.FixedInVersion =
                                   IF version # MaxVersion THEN version ELSE @]]

scanCriterion(st, c) ==
    IF st.panic THEN st
    ELSE IF Contains(c.Comment, " is installed") THEN scanInstalled(st, c)
    ELSE IF Contains(c.Comment, " is earlier than ") THEN scanEarlier(st, c)
    ELSE st

RECURSIVE scanCriterions(_, _)
scanCriterions(st, criterions) ==
    IF criterions = <<>> THEN st
    ELSE scanCriterions(scanCriterion(st, Head(criterions)), Tail(criterions))

namespaceName(osVersion) == "oracle" \o ":" \o Itoa(osVersion)

\* the test that guards the insertion into featureVersionParameters
resolved(name, fv) ==
    name # "" /\ fv.FeatureName # "" /\ fv.AffectedVersion # ""
    /\ fv.FixedInVersion # ""

\* the feature a scanned possibility stands for, and its key in
\* featureVersionParameters
featureOf(st) ==
    [Namespace |-> namespaceName(st.osVersion),
     FeatureName |-> st.fv.FeatureName,
     AffectedVersion |-> st.fv.AffectedVersion,
     FixedInVersion |-> st.fv.FixedInVersion]
keyOf(f) == f.Namespace \o ":" \o f.FeatureName

\* one scanned possibility, given the map built so far (a set of features,
\* at most one per key)
addScanned(acc, st) ==
    IF st.panic THEN [acc EXCEPT !.panic = TRUE]
    ELSE IF resolved(namespaceName(st.osVersion), st.fv)
    THEN [acc EXCEPT !.features =
             {f \in @ : keyOf(f) # keyOf(featureOf(st))} \cup {featureOf(st)}]
    ELSE acc

addPossibility(acc, criterions) ==
    IF acc.panic THEN acc
    ELSE addScanned(acc, scanCriterions(scanStart, criterions))

RECURSIVE addPossibilities(_, _)
addPossibilities(acc, poss) ==
    IF poss = <<>> THEN acc
    ELSE addPossibilities(addPossibility(acc, Head(poss)), Tail(poss))

\* [panic, features]: the features returned, in no particular order
toFeatures(criteria) ==
    addPossibilities([panic |-> FALSE, features |-> {}], getPossibilities(criteria))

-----------------------------------------------------------------------------
(* description, name, link, severity, parseELSA                            *)
(* A definition is [Title, Description, References, Criteria, Severity,    *)
(* CVEs]; a reference is [Source, URI, ID]; a cve is [Impact, Href, ID].   *)

description(d) ==
    Replace(Replace(Replace(d.Description, "\n\n\n", " "), "\n\n", " "), "\n", " ")

\* name panics when the title holds no ": "
nameOk(d) == SliceOk(d.Title, 0, Index(d.Title, ": "))
name(d) == TrimSpace(Slice(d.Title, 0, Index(d.Title, ": ")))

link(d) ==
    LET elsa == {i \in 1..Len(d.References) : d.References[i].Source = "elsa"}
    IN  IF elsa = {} THEN ""
        ELSE d.References[CHOOSE i \in elsa : \A j \in elsa : i <= j].URI

\* strings.ToLower on ASCII
UpperCase == "ABCDEFGHIJKLMNOPQRSTUVWXYZ"
LowerCase == "abcdefghijklmnopqrstuvwxyz"
lowerByte(c) ==
    IF Contains(UpperCase, c) THEN ByteAt(LowerCase, Index(UpperCase, c)) ELSE c
RECURSIVE ToLower(_)
ToLower(s) ==
    IF s = "" THEN "" ELSE lowerByte(ByteAt(s, 0)) \o ToLower(Slice(s, 1, Len(s)))

severityOfLabel(l) ==
    IF l = "n/a" THEN "Negligible"
    ELSE IF l = "low" THEN "Low"
    ELSE IF l = "moderate" THEN "Medium"
    ELSE IF l \in {"important", "high"} THEN "High"
    ELSE IF l = "critical" THEN "Critical"
    ELSE "Unknown"

severity(sev) == severityOfLabel(ToLower(sev))

\* the severity of the record made for one cve of definition d
definitionSeverity(d, currentCVE) == severity(d.Severity)

cveSeverity(d, currentCVE) ==
    IF currentCVE.Impact # "" THEN severity(currentCVE.Impact)
    ELSE severity(d.Severity)

\* the record made before the cves are looked at
baseVulnerability(d, features) ==
    [Name |-> name(d), Link |-> link(d), Severity |-> severity(d.Severity),
     Description |-> description(d), Affected |-> features]

\* one record for the definition, or one per cve
perCVE(d, vulnerability) ==
    IF Len(d.CVEs) = 0 THEN <<vulnerability>>
    ELSE [i \in 1..Len(d.CVEs) |->
             [vulnerability EXCEPT !.Name = d.CVEs[i].ID,
                                   !.Link = d.CVEs[i].Href,
                                   !.Severity = cveSeverity(d, d.CVEs[i])]]

\* the records of one definition whose features are p: [panic, vulnerabilities]
recordsOf(d, p) ==
    IF p.panic THEN [panic |-> TRUE, vulnerabilities |-> <<>>]
    ELSE IF p.features = {} THEN [panic |-> FALSE, vulnerabilities |-> <<>>]
    ELSE IF ~nameOk(d) THEN [panic |-> TRUE, vulnerabilities |-> <<>>]
    ELSE [panic |-> FALSE,
          vulnerabilities |-> perCVE(d, baseVulnerability(d, p.features))]

parseDefinition(d) == recordsOf(d, toFeatures(d.Criteria))

collect(acc, one) ==
    [panic |-> one.panic,
     vulnerabilities |-> acc.vulnerabilities \o one.vulnerabilities]

RECURSIVE parseDefinitions(_, _)
parseDefinitions(acc, definitions) ==
    IF acc.panic \/ definitions = <<>> THEN acc
    ELSE parseDefinitions(collect(acc, parseDefinition(Head(definitions))),
                          Tail(definitions))

\* an advisory document is [decodes, Definitions]: whether xml.Decode
\* accepts it, and what it decodes to.  The outcome is [panic, err,
\* vulnerabilities], err = "" standing for nil.
decoded(all) ==
    [panic |-> all.panic, err |-> "",
     vulnerabilities |-> IF all.panic THEN <<>> ELSE all.vulnerabilities]

parseELSA(ov) ==
    IF ~ov.decodes
    THEN [panic |-> FALSE, err |-> ErrCouldNotParse, vulnerabilities |-> <<>>]
    ELSE decoded(parseDefinitions([panic |-> FALSE, vulnerabilities |-> <<>>],
                                  ov.Definitions))

RECURSIVE largestFrom(_, _)
largestFrom(list, acc) ==
    IF list = <<>> THEN acc
    ELSE largestFrom(Tail(list), IF Head(list) > acc THEN Head(list) ELSE acc)

lastOf(list) == IF list = <<>> THEN 0 ELSE list[Len(list)]

largest(list) == largestFrom(list, 0)

-----------------------------------------------------------------------------
(* Values of the variables an operation does not use.                      *)

Idle == "idle"

idleUpdate ==
    /\ datastore = Idle /\ firstELSA = Idle /\ lines = Idle /\ fetched = Idle
    /\ resp = Idle /\ err = Idle
idleCompare == left = Idle /\ right = Idle /\ cmp = Idle
idlePoss == node = Idle /\ possibilities = Idle
idleParse == def = Idle /\ desc = Idle /\ pkgs = Idle /\ parsed = Idle

-----------------------------------------------------------------------------
(* SpecCompare: compareELSA on every pair of 0..MaxELSA, then the          *)
(* selection the scanner loop of Update makes with it.                     *)

InitCompare ==
    /\ pc = "call"
    /\ left \in 0..MaxELSA
    /\ right \in 0..MaxELSA
    /\ cmp = Idle
    /\ elsaList = <<>>
    /\ idleUpdate /\ idlePoss /\ idleParse

CompareELSA ==
    /\ pc = "call"
    /\ cmp' = compareELSA(left, right)
    /\ pc' = "returned"
    /\ UNCHANGED <<left, right, updateVars, possVars, parseVars>>

SelectELSA ==
    /\ pc = "returned"
    /\ elsaList' = selectELSA(elsaList, left, right)
    /\ pc' = "selected"
    /\ UNCHANGED <<compareVars, datastore, firstELSA, lines, fetched, resp, err,
                   possVars, parseVars>>

NextCompare == CompareELSA \/ SelectELSA

SpecCompare == InitCompare /\ [][NextCompare]_vars

\* the order of two decimal numerals read as strings: at the first position
\* where they differ the smaller digit decides, and a proper prefix is smaller
LexLess(a, b) ==
    \E k \in 0..Len(a) :
        /\ k <= Len(b)
        /\ Slice(a, 0, k) = Slice(b, 0, k)
        /\ \/ k = Len(a) /\ k < Len(b)
           \/ /\ k < Len(a) /\ k < Len(b)
              /\ DigitValue(ByteAt(a, k)) < DigitValue(ByteAt(b, k))

-----------------------------------------------------------------------------
(* SpecPoss: getPossibilities on criteria trees of up to three levels: a   *)
(* root with its own criterions and with no child, one child or two        *)
(* leaves-only children; a child alone may itself have two leaves-only     *)
(* children.  A leaves-only node has at most MaxLeaves criterions.         *)

\* the comments of the trees, two of them carrying an ignored marker
ChildComments == <<"X", "Y", "Z", "kernel is earlier than 0:2.6.ksplice1.el7">>
RootComments == <<"X", "kernel is signed with the Oracle Linux 7 key">>
IgnorableComments ==
    {"kernel is earlier than 0:2.6.ksplice1.el7",
     "kernel is signed with the Oracle Linux 7 key"}
KeptComments == {"X", "Y", "Z"}

Operators == {"AND", "OR", "XOR"}

\* the criterion lists that take at most max comments of cs, in their order
SubLists(cs, max) ==
    LET picks == {P \in SUBSET (1..Len(cs)) : Cardinality(P) <= max}
        nth(P, k) == CHOOSE i \in P : Cardinality({j \in P : j < i}) = k - 1
    IN  {[k \in 1..Cardinality(P) |-> [Comment |-> cs[nth(P, k)]]] : P \in picks}

LeafNodes ==
    {[Operator |-> op, Criterias |-> <<>>, Criterions |-> cl] :
        op \in Operators, cl \in SubLists(ChildComments, MaxLeaves)}

LeafPairs == {<<a, b>> : a \in LeafNodes, b \in LeafNodes}

NestedNodes ==
    {[Operator |-> op, Criterias |-> cs, Criterions |-> <<>>] :
        op \in Operators, cs \in LeafPairs}

ChildLists ==
    {<<>>} \cup {<<a>> : a \in LeafNodes \cup NestedNodes} \cup LeafPairs

Trees ==
    {[Operator |-> op, Criterias |-> cs, Criterions |-> cl] :
        op \in Operators, cs \in ChildLists,
        cl \in SubLists(RootComments, Len(RootComments))}

InitPoss ==
    /\ pc = "call"
    /\ node \in Trees
    /\ possibilities = Idle
    /\ elsaList = Idle
    /\ idleUpdate /\ idleCompare /\ idleParse

GetPossibilities ==
    /\ pc = "call"
    /\ possibilities' = getPossibilities(node)
    /\ pc' = "returned"
    /\ UNCHANGED <<node, updateVars, compareVars, parseVars>>

NextPoss == GetPossibilities

SpecPoss == InitPoss /\ [][NextPoss]_vars

\* the criterions of a node that count: those without an ignored marker
KeptOf(n) == SelectSeq(n.Criterions, LAMBDA c : c.Comment \notin IgnorableComments)

\* the condition tree as a formula: whether node n is satisfied when
\* exactly the conditions of S are true
RECURSIVE Satisfied(_, _)
Satisfied(n, S) ==
    LET kept == KeptOf(n)
    IN  IF n.Operator = "AND"
        THEN /\ \A i \in 1..Len(n.Criterias) : Satisfied(n.Criterias[i], S)
             /\ \A i \in 1..Len(kept) : kept[i].Comment \in S
        ELSE IF n.Operator = "OR"
        THEN \/ \E i \in 1..Len(n.Criterias) : Satisfied(n.Criterias[i], S)
             \/ \E i \in 1..Len(kept) : kept[i].Comment \in S
        ELSE FALSE

\* the possibility groups of a node: one per child node, and one for its
\* own criterions when it has any
LeafGroupSize(n) ==
    IF n.Operator = "AND" THEN 1
    ELSE IF n.Operator = "OR" THEN Len(KeptOf(n)) ELSE 0

RECURSIVE SeqProduct(_)
SeqProduct(ns) == IF ns = <<>> THEN 1 ELSE Head(ns) * SeqProduct(Tail(ns))
RECURSIVE SeqSum(_)
SeqSum(ns) == IF ns = <<>> THEN 0 ELSE Head(ns) + SeqSum(Tail(ns))

RECURSIVE GroupSize(_)
GroupSize(n) ==
    IF Len(n.Criterias) = 0 THEN LeafGroupSize(n)
    ELSE LET sizes == [i \in 1..Len(n.Criterias) |-> GroupSize(n.Criterias[i])]
                      \o (IF Len(n.Criterions) > 0 THEN <<LeafGroupSize(n)>> ELSE <<>>)
         IN  IF n.Operator = "AND" THEN SeqProduct(sizes)
             ELSE IF n.Operator = "OR" THEN SeqSum(sizes) ELSE 0

\* C5: the possibilities are the disjunctive normal form of the tree over
\* its kept leaves: the tree is satisfied by a set of true conditions exactly
\* when all the conditions of some possibility are true; a leaves-only AND
\* node gives the one possibility of its kept leaves, a leaves-only OR node one
\* single-leaf possibility per kept leaf; an AND node gives as many
\* possibilities as the product of its groups' sizes, an OR node as many as
\* their sum, any other operator none; no possibility holds an ignored leaf.
C5_PossibilitiesAreDNF ==
    pc = "returned" =>
        /\ \A S \in SUBSET KeptComments :
               Satisfied(node, S) <=>
                   \E i \in 1..Len(possibilities) :
                       \A j \in 1..Len(possibilities[i]) :
                           possibilities[i][j].Comment \in S
        /\ Len(possibilities) = GroupSize(node)
        /\ Len(node.Criterias) = 0 /\ node.Operator = "AND" =>
               possibilities = <<KeptOf(node)>>
        /\ Len(node.Criterias) = 0 /\ node.Operator = "OR" =>
               possibilities = [i \in 1..Len(KeptOf(node)) |-> <<KeptOf(node)[i]>>]
        /\ node.Operator \notin {"AND", "OR"} => possibilities = <<>>
        /\ \A i \in 1..Len(possibilities) :
               \A j \in 1..Len(possibilities[i]) :
                   possibilities[i][j].Comment \notin IgnorableComments

\* C5, witness: an AND of two OR groups of sizes 2 and 3, and of the
\* node's own criterions of which one is ignored, gives 6 possibilities.
C5_Witness ==
    /\ pc = "returned"
    /\ node.Operator = "AND"
    /\ Len(node.Criterias) = 2
    /\ node.Criterias[1].Operator = "OR" /\ Len(KeptOf(node.Criterias[1])) = 2
    /\ node.Criterias[2].Operator = "OR" /\ Len(KeptOf(node.Criterias[2])) = 3
    /\ Len(node.Criterions) = 2
    /\ Len(possibilities) = 6
    /\ \A i \in 1..6 : Len(possibilities[i]) = 3

-----------------------------------------------------------------------------
(* SpecDesc: description on every description of at most MaxDescLen bytes  *)
(* over a letter, a space and a line break.                                *)

DescBytes == {"A", " ", "\n"}

RECURSIVE StringsUpTo(_, _)
StringsUpTo(bytes, n) ==
    IF n = 0 THEN {""}
    ELSE LET shorter == StringsUpTo(bytes, n - 1)
         IN  shorter \cup {t \o b : t \in shorter, b \in bytes}

elsaCriteria ==
    [Operator |-> "AND", Criterias |-> <<>>,
     Criterions |-> <<[Comment |-> "Oracle Linux 7 is installed"],
                      [Comment |-> "openssl is earlier than 0:1.0.1e-30.el7"]>>]

elsaReference ==
    [Source |-> "elsa", URI |-> "https://linux.oracle.com/errata/ELSA-2017-1234.html",
     ID |-> "ELSA-2017-1234"]

elsaDefinition ==
    [Title |-> "ELSA-2017-1234:  openssl security update (MODERATE)",
     Description |-> "",
     References |-> <<elsaReference>>,
     Criteria |-> elsaCriteria,
     Severity |-> "MODERATE",
     CVEs |-> <<>>]

InitDesc ==
    /\ pc = "call"
    /\ def \in {[elsaDefinition EXCEPT !.Description = d] :
                   d \in StringsUpTo(DescBytes, MaxDescLen)}
    /\ desc = Idle /\ pkgs = Idle /\ parsed = Idle
    /\ elsaList = Idle
    /\ idleUpdate /\ idleCompare /\ idlePoss

Description ==
    /\ pc = "call"
    /\ desc' = description(def)
    /\ pc' = "returned"
    /\ UNCHANGED <<def, pkgs, parsed, updateVars, compareVars, possVars>>

NextDesc == Description

SpecDesc == InitDesc /\ [][NextDesc]_vars

\* a text with every maximal run of line breaks replaced by one space
RECURSIVE SkipBreaks(_)
SkipBreaks(t) == IF t # "" /\ ByteAt(t, 0) = "\n" THEN SkipBreaks(Slice(t, 1, Len(t))) ELSE t
RECURSIVE Collapsed(_)
Collapsed(t) ==
    IF t = "" THEN ""
    ELSE IF ByteAt(t, 0) = "\n" THEN " " \o Collapsed(SkipBreaks(t))
    ELSE ByteAt(t, 0) \o Collapsed(Slice(t, 1, Len(t)))

\* C6, as stated: description replaces every maximal run of line breaks,
\* of any length, by exactly one space, and its result holds no line break.
C6_EveryRunBecomesOneSpace ==
    pc = "returned" =>
        /\ desc = Collapsed(def.Description)
        /\ ~Contains(desc, "\n")

-----------------------------------------------------------------------------
(* SpecParse: parseELSA on a document of one definition: toFeatures on its *)
(* criteria, then the records made of the features, or the decode failure. *)

ParseComments ==
    {"Oracle Linux 7 is installed",
     "Oracle Linux x is installed",
     "foo is installed",
     "openssl is earlier than 0:1.0.1e-30.el7",
     "openssl is earlier than ",
     "openssl is earlier than #MAXV#",
     "openssl is signed with the Oracle Linux 7 key"}

\* every sequence of at most n elements of S
RECURSIVE SeqsUpTo(_, _)
SeqsUpTo(S, n) ==
    IF n = 0 THEN {<<>>}
    ELSE LET shorter == SeqsUpTo(S, n - 1)
         IN  shorter \cup {Append(q, x) : q \in shorter, x \in S}

\* the shape of Oracle's definitions: the release, and one group per package
packageCriteria(package) ==
    [Operator |-> "AND", Criterias |-> <<>>,
     Criterions |-> <<[Comment |-> package \o " is earlier than 0:1.0.1e-30.el7"],
                      [Comment |-> package \o " is signed with the Oracle Linux 7 key"]>>]
oracleCriteria ==
    [Operator |-> "AND",
     Criterias |-> <<[Operator |-> "OR",
                      Criterias |-> <<packageCriteria("openssl"),
                                      packageCriteria("openssl-devel")>>,
                      Criterions |-> <<>>]>>,
     Criterions |-> <<[Comment |-> "Oracle Linux 7 is installed"]>>]

ParseCriteria ==
    {oracleCriteria} \cup
    {[Operator |-> op, Criterias |-> <<>>, Criterions |-> cl] :
        op \in {"AND", "OR"},
        cl \in SeqsUpTo({[Comment |-> c] : c \in ParseComments}, MaxCriterions)}

Impacts == {"", "Low"}

\* the cve lists: the k-th entry is CVE-2017-000k with any impact
cveEntry(k, impact) ==
    [Impact |-> impact,
     Href |-> "https://linux.oracle.com/cve/CVE-2017-000" \o Itoa(k) \o ".html",
     ID |-> "CVE-2017-000" \o Itoa(k)]
CVELists ==
    {[k \in 1..Len(q) |-> cveEntry(k, q[k])] : q \in SeqsUpTo(Impacts, MaxCVEs)}

\* title, severity and references of the definitions
Metadata ==
    {[Title |-> "ELSA-2017-1234:  openssl security update (MODERATE)",
      Severity |-> "MODERATE", References |-> <<elsaReference>>],
     [Title |-> " ELSA-2017-1234 : Important: openssl: update",
      Severity |-> "Important",
      References |-> <<[Source |-> "CVE", URI |-> "https://linux.oracle.com/cve/CVE-2017-0001.html",
                      ID |-> "CVE-2017-0001"], elsaReference>>],
     [Title |-> "openssl security update", Severity |-> "urgent", References |-> <<>>]}

ParseDefinitions ==
    {[Title |-> m.Title, Description |-> "fix\n\nfor openssl\n",
      References |-> m.References, Criteria |-> c, Severity |-> m.Severity,
      CVEs |-> l] : m \in Metadata, c \in ParseCriteria, l \in CVELists}

InitParse ==
    /\ pc = "call"
    /\ def \in ParseDefinitions
    /\ desc = Idle /\ pkgs = Idle /\ parsed = Idle
    /\ elsaList = Idle
    /\ idleUpdate /\ idleCompare /\ idlePoss

\* xml.Decode refuses the document
DecodeFails ==
    /\ pc = "call"
    /\ parsed' = parseELSA([decodes |-> FALSE, Definitions |-> <<>>])
    /\ pc' = "failed"
    /\ UNCHANGED <<def, desc, pkgs, updateVars, compareVars, possVars>>

\* the call of toFeatures on the definition's criteria
ToFeatures ==
    /\ pc = "call"
    /\ pkgs' = toFeatures(def.Criteria)
    /\ pc' = IF pkgs'.panic THEN "panicked" ELSE "extracted"
    /\ UNCHANGED <<def, desc, parsed, updateVars, compareVars, possVars>>

\* the rest of parseELSA
ParseELSA ==
    /\ pc = "extracted"
    /\ parsed' = parseELSA([decodes |-> TRUE, Definitions |-> <<def>>])
    /\ pc' = IF parsed'.panic THEN "panicked" ELSE "returned"
    /\ UNCHANGED <<def, desc, pkgs, updateVars, compareVars, possVars>>

NextParse == DecodeFails \/ ToFeatures \/ ParseELSA

SpecParse == InitParse /\ [][NextParse]_vars

\* the severity table
SeverityOf(label) ==
    IF label \in {"n/a", "N/A", "N/a", "n/A"} THEN "Negligible"
    ELSE IF label \in {"low", "Low", "LOW"} THEN "Low"
    ELSE IF label \in {"moderate", "Moderate", "MODERATE"} THEN "Medium"
    ELSE IF label \in {"important", "Important", "IMPORTANT", "high", "High", "HIGH"}
         THEN "High"
    ELSE IF label \in {"critical", "Critical", "CRITICAL"} THEN "Critical"
    ELSE "Unknown"

\* the title up to its first ": ", trimmed
TitleName(title) ==
    LET k == CHOOSE i \in 0..Len(title) :
                 /\ Slice(title, i, i + 2) = ": "
                 /\ \A j \in 0..(i - 1) : Slice(title, j, j + 2) # ": "
    IN  TrimSpace(Slice(title, 0, k))

\* C7: whenever parseELSA returns, a definition without features gives no
\* record; one with features and no cve gives one record, named from the
\* title; one with features and cves gives one record per cve, in order,
\* with that cve's id and href, and the severity of that cve's own impact
\* when it has one, of the definition otherwise; every record carries the
\* same features and description.
C7_OneRecordPerCVE ==
    pc = "returned" =>
        LET vs == parsed.vulnerabilities
        IN  /\ parsed.err = ""
            /\ pkgs.features = {} => vs = <<>>
            /\ pkgs.features # {} /\ def.CVEs = <<>> =>
                   /\ Len(vs) = 1
                   /\ vs[1].Name = TitleName(def.Title)
                   /\ vs[1].Severity = SeverityOf(def.Severity)
            /\ pkgs.features # {} /\ def.CVEs # <<>> =>
                   /\ Len(vs) = Len(def.CVEs)
                   /\ \A i \in 1..Len(vs) :
                          /\ vs[i].Name = def.CVEs[i].ID
                          /\ vs[i].Link = def.CVEs[i].Href
                          /\ vs[i].Severity =
                                 SeverityOf(IF def.CVEs[i].Impact # ""
                                            THEN def.CVEs[i].Impact ELSE def.Severity)
            /\ \A i \in 1..Len(vs) :
                   /\ vs[i].Affected = pkgs.features
                   /\ vs[i].Description = vs[1].Description

\* C7, witness: two cves, the first with its own impact and the second
\* without, give two records of different severities.
C7_Witness ==
    /\ pc = "returned"
    /\ Len(def.CVEs) = 2
    /\ def.CVEs[1].Impact = "Low" /\ def.CVEs[2].Impact = ""
    /\ def.Severity = "Important"
    /\ Len(parsed.vulnerabilities) = 2
    /\ parsed.vulnerabilities[1].Severity = "Low"
    /\ parsed.vulnerabilities[2].Severity = "High"
    /\ parsed.vulnerabilities[1].Affected # {}

\* what toFeatures reads in a criterion: the release after the prefix
\* "Oracle Linux ", the package before " is earlier than " and the version
\* after it
ReleaseToken(c) ==
    Slice(c.Comment, installedLen,
          installedLen + Index(Slice(c.Comment, installedLen, Len(c.Comment)), " "))
HasRelease(c) ==
    /\ Contains(c.Comment, " is installed")
    /\ Index(Slice(c.Comment, installedLen, Len(c.Comment)), " ") >= 0
    /\ ~Atoi(TrimSpace(ReleaseToken(c))).err
PackageOf(c) == TrimSpace(Slice(c.Comment, 0, Index(c.Comment, " is earlier than ")))
VersionOf(c) ==
    Slice(c.Comment, Index(c.Comment, " is earlier than ") + earlierLen, Len(c.Comment))
HasVersion(c) ==
    /\ ~Contains(c.Comment, " is installed")
    /\ Contains(c.Comment, " is earlier than ")
    /\ PackageOf(c) # ""
    /\ Valid(VersionOf(c))

\* C9, as stated: every feature toFeatures returns comes from a possibility
\* that holds a release condition whose number parsed, which gives the
\* namespace, and a version condition with a package name and a valid
\* version.
C9_OnlyResolvedPossibilitiesGiveFeatures ==
    pc = "extracted" =>
        \A f \in pkgs.features :
            \E p \in {getPossibilities(def.Criteria)[i] :
                         i \in 1..Len(getPossibilities(def.Criteria))} :
                /\ \E a \in 1..Len(p) :
                       /\ HasRelease(p[a])
                       /\ f.Namespace
                              = "oracle:" \o Itoa(Atoi(TrimSpace(ReleaseToken(p[a]))).val)
                /\ \E b \in 1..Len(p) :
                       HasVersion(p[b]) /\ f.FeatureName = PackageOf(p[b])

\* C8, as stated: processing a document never crashes: it ends with records
\* or with the parse error.
C8_NeverCrashes == pc # "panicked"

-----------------------------------------------------------------------------
(* Spec: updater.Update, batch after batch.  The positions are START,      *)
(* cursor-loaded, scanning (the listing is being read), listing-fetched    *)
(* (the candidates are being processed), DONE, FAILED and PANICKED.        *)

\* what the key/value store may hold under updaterFlag before the first batch
StoredValues == {"", "abc", "-5", "0", "9", "10"}
InitialStores ==
    {[ok |-> FALSE, value |-> ""]} \cup {[ok |-> TRUE, value |-> v] : v \in StoredValues}

\* the ids of the listing lines that match elsaRegexp
ListedIds == {0} \cup (8..MaxListed)

\* the advisory documents a download may give
noFeatureDefinition ==
    [elsaDefinition EXCEPT
        !.Criteria = [Operator |-> "XOR", Criterias |-> <<>>,
                      Criterions |-> elsaCriteria.Criterions]]
untitledDefinition == [elsaDefinition EXCEPT !.Title = "openssl security update"]
Documents ==
    {[decodes |-> FALSE, Definitions |-> <<>>],
     [decodes |-> TRUE, Definitions |-> <<noFeatureDefinition>>],
     [decodes |-> TRUE, Definitions |-> <<elsaDefinition>>],
     [decodes |-> TRUE, Definitions |-> <<untitledDefinition>>]}

\* the zero value of vulnsrc.UpdateResponse; Flags is a map from keys to
\* strings, empty when nil
zeroResponse == [Vulnerabilities |-> <<>>, Flags |-> <<>>]

startOfBatch ==
    /\ pc' = "START"
    /\ firstELSA' = 0 /\ lines' = 0 /\ elsaList' = <<>> /\ fetched' = 0
    /\ resp' = zeroResponse /\ err' = ""

Init ==
    /\ pc = "START"
    /\ datastore \in InitialStores
    /\ firstELSA = 0 /\ lines = 0 /\ elsaList = <<>> /\ fetched = 0
    /\ resp = zeroResponse /\ err = ""
    /\ idleCompare /\ idlePoss /\ idleParse

\* the watermark for a flag value read from the store
orDefault(a) == IF a.val = 0 \/ a.err THEN firstOracle5ELSA ELSE a.val

watermark(flagValue) == orDefault(Atoi(flagValue))

\* FindKeyValueAndRollback, then the choice of firstELSA
LoadCursor ==
    /\ pc = "START"
    /\ \E failed \in BOOLEAN :
          IF failed
          THEN /\ err' = ErrBackend
               /\ pc' = "FAILED"
               /\ UNCHANGED firstELSA
          ELSE /\ firstELSA' = watermark(IF datastore.ok THEN datastore.value ELSE "")
               /\ pc' = "cursor-loaded"
               /\ UNCHANGED err
    /\ UNCHANGED <<datastore, lines, elsaList, fetched, resp,
                   compareVars, possVars, parseVars>>

\* the download of the update list
FetchListing ==
    /\ pc = "cursor-loaded"
    /\ \E outcome \in {"error", "not 2xx", "2xx"} :
          IF outcome = "2xx"
          THEN pc' = "scanning" /\ UNCHANGED err
          ELSE pc' = "FAILED" /\ err' = ErrCouldNotDownload
    /\ UNCHANGED <<datastore, firstELSA, lines, elsaList, fetched, resp,
                   compareVars, possVars, parseVars>>

\* one line of the listing that matches elsaRegexp
ScanLine ==
    /\ pc = "scanning"
    /\ lines < MaxLines
    /\ \E elsaNo \in ListedIds :
          elsaList' = selectELSA(elsaList, elsaNo, firstELSA)
    /\ lines' = lines + 1
    /\ UNCHANGED <<pc, datastore, firstELSA, fetched, resp, err,
                   compareVars, possVars, parseVars>>

\* the scanner reaches the end of the listing
EndOfListing ==
    /\ pc = "scanning"
    /\ pc' = "listing-fetched"
    /\ UNCHANGED <<updateVars, compareVars, possVars, parseVars>>

\* one round of the loop over elsaList, once the download gave a document
\* that parseELSA turned into vs
collectVulnerabilities(vs) ==
    IF vs.panic
    THEN pc' = "PANICKED" /\ UNCHANGED <<fetched, resp, err>>
    ELSE IF vs.err # ""
    THEN pc' = "FAILED" /\ err' = vs.err /\ UNCHANGED <<fetched, resp>>
    ELSE /\ resp' = [resp EXCEPT !.Vulnerabilities = @ \o vs.vulnerabilities]
         /\ fetched' = fetched + 1
         /\ UNCHANGED <<pc, err>>

\* one round of the loop over elsaList: download, parse, collect
ProcessELSA ==
    /\ pc = "listing-fetched"
    /\ fetched < Len(elsaList)
    /\ \E outcome \in {"error", "not 2xx", "2xx"} :
          IF outcome = "2xx"
          THEN \E ov \in Documents : collectVulnerabilities(parseELSA(ov))
          ELSE /\ pc' = "FAILED" /\ err' = ErrCouldNotDownload
               /\ UNCHANGED <<fetched, resp>>
    /\ UNCHANGED <<datastore, firstELSA, lines, elsaList,
                   compareVars, possVars, parseVars>>

Finish ==
    /\ pc = "listing-fetched"
    /\ fetched = Len(elsaList)
    /\ resp' = IF Len(elsaList) > 0
               THEN [resp EXCEPT !.Flags = (updaterFlag :> Itoa(largest(elsaList)))]
               ELSE resp
    /\ pc' = "DONE"
    /\ UNCHANGED <<datastore, firstELSA, lines, elsaList, fetched, err,
                   compareVars, possVars, parseVars>>

\* the caller of Update stores the flags of a response that came without
\* error, and the next batch starts
Commit ==
    /\ pc = "DONE"
    /\ datastore' = IF updaterFlag \in DOMAIN resp.Flags
                    THEN [ok |-> TRUE, value |-> resp.Flags[updaterFlag]]
                    ELSE datastore
    /\ startOfBatch
    /\ UNCHANGED <<compareVars, possVars, parseVars>>

\* after an error the store is left as it is, and the next batch starts
Retry ==
    /\ pc = "FAILED"
    /\ startOfBatch
    /\ UNCHANGED <<datastore, compareVars, possVars, parseVars>>

Next ==
    \/ LoadCursor \/ FetchListing \/ ScanLine \/ EndOfListing
    \/ ProcessELSA \/ Finish \/ Commit \/ Retry

Spec == Init /\ [][Next]_vars

\* whether the response proposes a cursor, and the cursor it proposes
Proposed == updaterFlag \in DOMAIN resp.Flags
ProposedCursor == Atoi(resp.Flags[updaterFlag]).val

\* C1: when Update has returned, the response carries the updater flag
\* exactly when the candidate list is not empty and every candidate was
\* downloaded and decoded; the flag is then the greatest candidate as an
\* integer, whatever the candidates gave; a run that fails or has no
\* candidate carries no flag.
C1_CursorProposedIffBatchCompletes ==
    pc \in {"DONE", "FAILED"} =>
        /\ Proposed <=> (elsaList # <<>> /\ fetched = Len(elsaList) /\ err = "")
        /\ Proposed =>
               \E i \in 1..Len(elsaList) :
                   /\ resp.Flags[updaterFlag] = Itoa(elsaList[i])
                   /\ \A j \in 1..Len(elsaList) : elsaList[j] <= elsaList[i]
        /\ pc = "FAILED" => ~Proposed /\ err # ""
        /\ pc = "DONE" => err = ""
        /\ elsaList = <<>> => ~Proposed

\* C1, witness: a batch of the candidates 9 and 8, neither giving a record,
\* ends with the flag 9.
C1_Witness ==
    /\ pc = "DONE"
    /\ elsaList = <<9, 8>>
    /\ resp.Vulnerabilities = <<>>
    /\ Proposed /\ resp.Flags[updaterFlag] = "9"

\* C3, as stated: the response of a batch that failed holds no
\* vulnerability.
C3_NoPartialResults ==
    pc = "FAILED" => resp.Vulnerabilities = <<>>

\* C4, as stated: when the key is absent or its value is no non-negative
\* decimal integer, the watermark is firstOracle5ELSA.
C4_MalformedCursorGivesBaseline ==
    pc = "cursor-loaded" =>
        (~(datastore.ok /\ AllDigits(datastore.value)) =>
             firstELSA = firstOracle5ELSA)

\* C10, as stated: a cursor Update proposes is strictly greater than the
\* watermark the batch loaded, and so is every candidate of the batch.
C10_CursorNeverDecreases ==
    pc = "DONE" =>
        /\ Proposed => ProposedCursor > firstELSA
        /\ \A i \in 1..Len(elsaList) : elsaList[i] > firstELSA

=============================================================================
